---- MODULE Spec2Model ----
(***************************************************************************)
(* A model of the vector database: the HNSW index (hnsw.h), the VectorDB   *)
(* record store built on it (vectordb.cpp) and the command line front end  *)
(* (main.cpp).                                                             *)
(*                                                                         *)
(* Vectors are tuples of small integers (exactly representable as float,   *)
(* so L2Sqr is computed without rounding).  A std::priority_queue of       *)
(* std::pair<float,int> holding pairwise different pairs is modelled by    *)
(* the set of its pairs; top() is the greatest (max-heap) or the least     *)
(* (std::greater) pair in the lexicographic order of std::pair.            *)
(* Internal ids and layers are 0-based as in the source; the TLA+          *)
(* sequences that hold them are 1-based, hence the +1 at every index.      *)
(***************************************************************************)
EXTENDS Integers, Sequences, FiniteSets, TLC

VARIABLES
    index,    \* an HNSW object used on its own
    linked,   \* addPoint's locals per linking layer: lc, W, the neighbours taken
    db,       \* a VectorDB object: dim, nextId, vectors, hnsw_index
    file,     \* the document at dataFilePath (NoFile while it does not exist)
    call,     \* the call (or command) the caller has made, with its arguments
    ret,      \* what that call returned
    mutex_,   \* HNSW::mutex_ of index: the thread that owns it, or Unlocked
    pc,       \* where each thread calling into index is, with its locals
    returned, \* history: the ids addVector has returned for dataFilePath, in order
    drawn,    \* history: the layers getRandomLayer has returned to index and twin
    twin      \* a second HNSW object given the inserts of index, with its layers

vars == <<index, linked, db, file, call, ret, mutex_, pc, returned, drawn, twin>>

----------------------------------------------------------------------------
(* Bounds of the model *)

\* number of addPoint calls on one index
MaxNodes == 3
\* number of successful draws of getRandomLayer's loop when ml < 1
MaxLevel == 1
\* largest k passed to searchKnn
MaxK == 2
\* number of ids addVector hands out to one VectorDB
MaxRecords == 2

\* coordinates of the vectors and queries
Coords == 0 .. 2

\* getRandomLayer's cap on the layer
LayerCap == 16

----------------------------------------------------------------------------
(* Helpers *)

Min(a, b) == IF a < b THEN a ELSE b

\* size < (unsigned int)x and size > (unsigned int)x, for the size of a
\* container (below 2^31): a negative x converts to a value above every size
SizeBelow(size, x) == x < 0 \/ size < x
SizeAbove(size, x) == x >= 0 /\ size > x

\* operator< of std::pair<float,int>
PairLess(a, b) == a[1] < b[1] \/ (a[1] = b[1] /\ a[2] < b[2])

\* top() of a max-heap (std::less) holding the pairs S
MaxTop(S) == CHOOSE x \in S : \A y \in S : ~PairLess(x, y)

\* top() of a min-heap (std::greater) holding the pairs S
MinTop(S) == CHOOSE x \in S : \A y \in S : ~PairLess(y, x)

\* the pairs of S in the order a max-heap pops them
RECURSIVE PopAllMax(_)
PopAllMax(S) ==
    IF S = {} THEN <<>>
    ELSE LET t == MaxTop(S) IN <<t>> \o PopAllMax(S \ {t})

\* the pairs of S in the order a min-heap pops them
RECURSIVE PopAllMin(_)
PopAllMin(S) ==
    IF S = {} THEN <<>>
    ELSE LET t == MinTop(S) IN <<t>> \o PopAllMin(S \ {t})

\* what a loop "while (out.size() < (unsigned int)n && !s.empty())" moves
\* from s to out: the first n elements of s, all of s when it is shorter
Take(s, n) == SubSeq(s, 1, IF SizeBelow(Len(s), n) THEN Len(s) ELSE n)

\* std::vector::resize(n) on a vector of vectors that is shorter than n
Resize(v, n) == v \o [i \in 1 .. (n - Len(v)) |-> <<>>]

Range(s) == {s[i] : i \in 1 .. Len(s)}

\* statement order: the value of e, taken up once v has been computed (a loop
\* of 17 layers would otherwise leave 17 pending computations to the end)
After(v, e) == IF v = v THEN e ELSE e

----------------------------------------------------------------------------
(* hnsw.h *)

\* static float L2Sqr(a, b, dim)
RECURSIVE L2Sqr(_, _, _)
L2Sqr(a, b, dim) ==
    IF dim <= 0 THEN 0
    ELSE L2Sqr(a, b, dim - 1) + (a[dim] - b[dim]) * (a[dim] - b[dim])

\* Node(p, label, dim): data is a copy of p, friends is empty
Node(p, label, dim) ==
    [data |-> [i \in 1 .. dim |-> p[i]], label |-> label, friends |-> <<>>]

\* the HNSW constructor (max_elements only reserves storage)
HNSW(dim, M, M_max0, ef_construction) ==
    [dim_ |-> dim, M_ |-> M, M_max0_ |-> M_max0,
     ef_construction_ |-> ef_construction,
     L_ |-> 0, enter_point_ |-> -1, nodes_ |-> <<>>]


\* an addNeighbor that pushes the id whether or not the list holds it (a
\* variant "no duplicate edges" has to tell from the code)
addNeighborAgain(node, layer, neighbor_id) ==
    LET fr == IF layer >= Len(node.friends)
              THEN Resize(node.friends, layer + 1)
              ELSE node.friends
    IN [node EXCEPT !.friends =
          [fr EXCEPT ![layer + 1] = IF @ = <<>> THEN <<neighbor_id>>
                                    ELSE @ \o <<Head(@), neighbor_id>>]]

\* Node::addNeighbor(layer, neighbor_id)
addNeighbor(node, layer, neighbor_id) ==
    LET fr == IF layer >= Len(node.friends)
              THEN Resize(node.friends, layer + 1)
              ELSE node.friends
    IN [node EXCEPT !.friends = [fr EXCEPT ![layer + 1] = Append(@, neighbor_id)]]

\* float dist(q, node_id, layer)
dist(h, q, node_id, layer) == L2Sqr(q, h.nodes_[node_id + 1].data, h.dim_)

\* ml = 1/log(M) is +inf for M = 1 and 1.44 for M = 2, so that every draw
\* u in [0,1) is below it; for M >= 3 it is below 1 and a draw may fail.
MlAboveOne(M) == M \in 1 .. 2

\* the layers getRandomLayer can return
getRandomLayer(M) ==
    IF MlAboveOne(M) THEN {LayerCap} ELSE 0 .. Min(MaxLevel, LayerCap)

\* a pruneConnections that keeps one connection more than M_max (a variant
\* the degree bound has to tell from the code)
pruneKeepsOneMore(nodes, dim, node_id, layer, M_max) ==
    LET me == nodes[node_id + 1]
        connections ==
            {<<L2Sqr(me.data, nodes[n + 1].data, dim), n>> :
                n \in Range(me.friends[layer + 1])}
        kept == Take(PopAllMin(connections), M_max + 1)
    IN [nodes EXCEPT ![node_id + 1].friends[layer + 1] =
            [i \in 1 .. Len(kept) |-> kept[i][2]]]

\* a pruneConnections that pops a max-heap, keeping the farthest (a variant
\* "pruning keeps the closest" has to tell from the code)
pruneKeepsFarthest(nodes, dim, node_id, layer, M_max) ==
    LET me == nodes[node_id + 1]
        connections ==
            {<<L2Sqr(me.data, nodes[n + 1].data, dim), n>> :
                n \in Range(me.friends[layer + 1])}
        kept == Take(PopAllMax(connections), M_max)
    IN [nodes EXCEPT ![node_id + 1].friends[layer + 1] =
            [i \in 1 .. Len(kept) |-> kept[i][2]]]

\* pruneConnections(node_id, layer, M_max) on the node array
pruneConnections(nodes, dim, node_id, layer, M_max) ==
    LET me == nodes[node_id + 1]
        connections ==
            {<<L2Sqr(me.data, nodes[n + 1].data, dim), n>> :
                n \in Range(me.friends[layer + 1])}
        order == PopAllMin(connections)
        kept == Take(order, M_max)
    IN [nodes EXCEPT ![node_id + 1].friends[layer + 1] =
            [i \in 1 .. Len(kept) |-> kept[i][2]]]

\* the for loop of searchLayer over friends[l] of the popped candidate;
\* st is the record of the locals W, C and visited
RECURSIVE ScanFriends(_, _, _, _, _, _)
ScanFriends(h, q, ef, l, fs, st) ==
    IF fs = <<>> THEN st
    ELSE LET e == Head(fs) IN
         IF e \in st.visited THEN ScanFriends(h, q, ef, l, Tail(fs), st)
         ELSE LET d_e == dist(h, q, e, l)
                  seen == st.visited \cup {e}
              IN IF d_e < MaxTop(st.W)[1] \/ SizeBelow(Cardinality(st.W), ef)
                 THEN LET pushed == st.W \cup {<<d_e, e>>}
                          W == IF SizeAbove(Cardinality(pushed), ef)
                               THEN pushed \ {MaxTop(pushed)}
                               ELSE pushed
                      IN ScanFriends(h, q, ef, l, Tail(fs),
                            [W |-> W, C |-> st.C \cup {<<d_e, e>>}, visited |-> seen])
                 ELSE ScanFriends(h, q, ef, l, Tail(fs),
                            [st EXCEPT !.visited = seen])

\* the while loop of searchLayer
RECURSIVE SearchLoop(_, _, _, _, _)
SearchLoop(h, q, ef, l, st) ==
    IF st.C = {} THEN st.W
    ELSE LET top == MinTop(st.C)
             c == top[2]
             popped == [st EXCEPT !.C = @ \ {top}]
         IN IF c = -1 \/ MaxTop(st.W)[1] < dist(h, q, c, l) THEN st.W
            ELSE IF Len(h.nodes_[c + 1].friends) > l
                 THEN SearchLoop(h, q, ef, l,
                        ScanFriends(h, q, ef, l, h.nodes_[c + 1].friends[l + 1], popped))
                 ELSE SearchLoop(h, q, ef, l, popped)

\* a searchLayer that looks at nothing but the entry point (a variant "the
\* greedy walk ends at a local minimum" has to tell from the code)
searchLayerStays(h, q, ep, ef, l) == {<<dist(h, q, ep, l), ep>>}

\* searchLayer(q, ep, ef, l): the max-heap W it returns
searchLayer(h, q, ep, ef, l) ==
    LET first == <<dist(h, q, ep, l), ep>>
    IN SearchLoop(h, q, ef, l, [W |-> {first}, C |-> {first}, visited |-> {ep}])

\* the loop of addPoint that moves W's top into neighbors while
\* neighbors.size() < M_: the neighbours taken, in the order W pops them
selectNeighbors(W, M) == Take(PopAllMax(W), M)

\* a linking loop that adds the edge from the new node only, never the edge
\* back (a variant the symmetry of unpruned edges has to tell from the code)
RECURSIVE connectOneWay(_, _, _, _, _, _)
connectOneWay(nodes, dim, id, lc, M_max, neighbors) ==
    IF neighbors = <<>> THEN nodes
    ELSE LET neighbor_id == Head(neighbors)[2]
             mine == [nodes EXCEPT ![id + 1] = addNeighbor(@, lc, neighbor_id)]
         IN connectOneWay(mine, dim, id, lc, M_max, Tail(neighbors))

\* the while loop of addPoint over the heap neighbors (popped greatest first):
\* link both ways, prune the neighbour when its list outgrows M_max
RECURSIVE connectNeighbors(_, _, _, _, _, _)
connectNeighbors(nodes, dim, id, lc, M_max, neighbors) ==
    IF neighbors = <<>> THEN nodes
    ELSE LET neighbor_id == Head(neighbors)[2]
             mine == [nodes EXCEPT ![id + 1] = addNeighbor(@, lc, neighbor_id)]
             both == [mine EXCEPT ![neighbor_id + 1] = addNeighbor(@, lc, id)]
             pruned == IF SizeAbove(Len(both[neighbor_id + 1].friends[lc + 1]), M_max)
                       THEN pruneConnections(both, dim, neighbor_id, lc, M_max)
                       ELSE both
         IN connectNeighbors(pruned, dim, id, lc, M_max, Tail(neighbors))

\* int M_max = (lc == 0) ? M_max0_ : M_
M_max(h, lc) == IF lc = 0 THEN h.M_max0_ ELSE h.M_

\* a linking loop that stops above layer 0 (a variant layer monotonicity has
\* to tell from the code)
RECURSIVE linkAboveZero(_, _, _, _, _, _)
linkAboveZero(h, p, id, ep, lc, acc) ==
    IF lc < 1 THEN [h |-> h, linked |-> acc]
    ELSE LET W == searchLayer(h, p, ep, h.ef_construction_, lc)
             neighbors == selectNeighbors(W, h.M_)
             nodes == connectNeighbors(h.nodes_, h.dim_, id, lc, M_max(h, lc), neighbors)
         IN After(nodes,
                linkAboveZero([h EXCEPT !.nodes_ = nodes], p, id, ep, lc - 1,
                    Append(acc, [lc |-> lc, W |-> W,
                                 neighbors |-> {n[2] : n \in Range(neighbors)}])))

\* the second for loop of addPoint, from layer lc down to 0, with the same ep
\* at every layer; acc collects the locals W and neighbors of each layer
RECURSIVE linkLayers(_, _, _, _, _, _)
linkLayers(h, p, id, ep, lc, acc) ==
    IF lc < 0 THEN [h |-> h, linked |-> acc]
    ELSE LET W == searchLayer(h, p, ep, h.ef_construction_, lc)
             neighbors == selectNeighbors(W, h.M_)
             nodes == connectNeighbors(h.nodes_, h.dim_, id, lc, M_max(h, lc), neighbors)
         IN After(nodes,
                linkLayers([h EXCEPT !.nodes_ = nodes], p, id, ep, lc - 1,
                    Append(acc, [lc |-> lc, W |-> W,
                                 neighbors |-> {n[2] : n \in Range(neighbors)}])))

\* for (lc = from; lc > stop; --lc) ep = searchLayer(q, ep, 1, lc).top().second
RECURSIVE descend(_, _, _, _, _)
descend(h, q, ep, lc, stop) ==
    IF lc <= stop THEN ep
    ELSE LET found == MaxTop(searchLayer(h, q, ep, 1, lc))[2]
         IN After(found, descend(h, q, found, lc - 1, stop))

\* an addPoint that leaves L_ as it was (a variant the tracking of the top
\* layer has to tell from the code)
addPointKeepsTop(h, p, label, l) ==
    LET id == Len(h.nodes_)
        pushed == [h EXCEPT !.nodes_ = Append(@, Node(p, label, h.dim_))]
        ep == h.enter_point_
    IN IF ep = -1
       THEN [h |-> [pushed EXCEPT !.enter_point_ = id], linked |-> <<>>]
       ELSE linkLayers(pushed, p, id, descend(pushed, p, ep, pushed.L_, l),
                       Min(l, pushed.L_), <<>>)

\* an addPoint that makes the new node the entry point when its layer is
\* above every earlier one (a variant "the entry point is never reassigned"
\* has to tell from the code)
addPointMovesEntry(h, p, label, l) ==
    LET id == Len(h.nodes_)
        pushed == [h EXCEPT !.nodes_ = Append(@, Node(p, label, h.dim_)),
                            !.L_ = IF l > @ THEN l ELSE @]
        ep == h.enter_point_
    IN IF ep = -1
       THEN [h |-> [pushed EXCEPT !.enter_point_ = id], linked |-> <<>>]
       ELSE LET done == linkLayers(pushed, p, id,
                                   descend(pushed, p, ep, pushed.L_, l),
                                   Min(l, pushed.L_), <<>>)
            IN [h |-> [done.h EXCEPT !.enter_point_ = IF l > h.L_ THEN id ELSE @],
                linked |-> done.linked]

\* addPoint(p, label) when getRandomLayer returns l: the index afterwards,
\* and the locals of its linking loop
addPoint(h, p, label, l) ==
    LET id == Len(h.nodes_)
        pushed == [h EXCEPT !.nodes_ = Append(@, Node(p, label, h.dim_)),
                            !.L_ = IF l > @ THEN l ELSE @]
        ep == h.enter_point_
    IN IF ep = -1
       THEN [h |-> [pushed EXCEPT !.enter_point_ = id], linked |-> <<>>]
       ELSE linkLayers(pushed, p, id, descend(pushed, p, ep, pushed.L_, l),
                       Min(l, pushed.L_), <<>>)

\* s with the pair x put before the first element that is not greater
RECURSIVE InsertDesc(_, _)
InsertDesc(s, x) ==
    IF s = <<>> THEN <<x>>
    ELSE IF PairLess(x, Head(s)) THEN <<Head(s)>> \o InsertDesc(Tail(s), x)
         ELSE <<x>> \o s

\* the heap results of searchKnn, as the sequence it pops (greatest first),
\* filled with (dist, label) for the pairs ws popped from W
RECURSIVE relabel(_, _, _)
relabel(h, ws, results) ==
    IF ws = <<>> THEN results
    ELSE relabel(h, Tail(ws),
            InsertDesc(results, <<Head(ws)[1], h.nodes_[Head(ws)[2] + 1].label>>))

\* a searchKnn that leaves enter_point_ at the node its descent reached (a
\* variant "searches do not change what later calls return" has to tell from
\* the code)
searchKnnMovesEntry(h, q, k) ==
    IF h.enter_point_ = -1 THEN h
    ELSE [h EXCEPT !.enter_point_ = descend(h, q, h.enter_point_, h.L_, 0)]

\* the index after searchKnn(q, k): the function writes no member
afterSearchKnn(h, q, k) == h

\* searchKnn(q, k): the returned heap, as the sequence it pops
searchKnn(h, q, k) ==
    LET ep == h.enter_point_ IN
    IF ep = -1 THEN <<>>
    ELSE LET W == searchLayer(h, q, descend(h, q, ep, h.L_, 0), k, 0)
         IN relabel(h, PopAllMax(W), <<>>)

----------------------------------------------------------------------------
(* vectordb.cpp *)

\* rebuildIndex constructs HNSW(dim, max_elements, 16, 200): M and M_max0
RebuildM == 16
RebuildMmax0 == 200
\* the default of the constructor's parameter ef_construction
DefaultEfConstruction == 200

\* std::unique_ptr<HNSW> holding no index
NullIndex == [null |-> TRUE]

\* the JSON value null, and a JSON array
JsonNull == [type |-> "null"]
JsonArray(items) == [type |-> "array", items |-> items]

\* a JSON number
JsonNumber(x) == [type |-> "number", value |-> x]

\* a float that is not finite (inf, NaN); the finite ones are the integers
Infinity == -1

\* json(vec) as dump() writes it: a number for each finite float, null for
\* one that is not finite
to_json(vec) ==
    [i \in 1 .. Len(vec) |->
        IF vec[i] = Infinity THEN JsonNull ELSE JsonNumber(vec[i])]

\* get<std::vector<float>>(): the floats, or type_error when an element is
\* not a number
from_json(j) ==
    IF \E i \in 1 .. Len(j) : j[i].type # "number"
    THEN [threw |-> TRUE, val |-> <<>>]
    ELSE [threw |-> FALSE, val |-> [i \in 1 .. Len(j) |-> j[i].value]]

\* no document at dataFilePath
NoFile == [exists |-> FALSE]

\* what a call gives back: a value, or an exception with its message
Returns(d, val) == [db |-> d, threw |-> FALSE, what |-> "", val |-> val]
Throws(d, what) == [db |-> d, threw |-> TRUE, what |-> what, val |-> <<>>]

\* VectorDB(dbPath): dim(0), nextId(0), no records, no index
VectorDB == [dim |-> 0, nextId |-> 0, vectors |-> <<>>, hnsw_index |-> NullIndex]

\* the keys of a std::map in its iteration order (ascending)
RECURSIVE Keys(_)
Keys(S) ==
    IF S = {} THEN <<>>
    ELSE LET least == CHOOSE x \in S : \A y \in S : x <= y
         IN <<least>> \o Keys(S \ {least})

\* the loop of rebuildIndex that appends every data.vec to raw_vector_data
RECURSIVE Flatten(_, _)
Flatten(vectors, ids) ==
    IF ids = <<>> THEN <<>>
    ELSE vectors[Head(ids)].vec \o Flatten(vectors, Tail(ids))

\* the loop of rebuildIndex that calls addPoint(raw_vector_data + i*dim, i)
\* for i < n; ls[i+1] is the layer getRandomLayer draws in the i-th call
RECURSIVE addPoints(_, _, _, _, _)
addPoints(h, raw, i, n, ls) ==
    IF i >= n THEN h
    ELSE LET p == SubSeq(raw, i * h.dim_ + 1, (i + 1) * h.dim_)
             next == addPoint(h, p, i, ls[i + 1]).h
         IN After(next, addPoints(next, raw, i + 1, n, ls))

\* VectorDB::rebuildIndex(); ls are the layers drawn, one per record
rebuildIndex(d, ls) ==
    LET ids == Keys(DOMAIN d.vectors)
        raw_vector_data == Flatten(d.vectors, ids)
        fresh == HNSW(d.dim, RebuildM, RebuildMmax0, DefaultEfConstruction)
    IN IF raw_vector_data = <<>>
       THEN [d EXCEPT !.hnsw_index = fresh]
       ELSE [d EXCEPT !.hnsw_index = addPoints(fresh, raw_vector_data, 0, Len(ids), ls)]

\* the layers rebuildIndex may draw for the records of d
RebuildLayers(d) ==
    [1 .. Cardinality(DOMAIN d.vectors) -> getRandomLayer(RebuildM)]

\* VectorDB::save(): the document written to dataFilePath
save(d) ==
    LET ids == Keys(DOMAIN d.vectors)
        j_vectors == [i \in 1 .. Len(ids) |->
                        [id |-> d.vectors[ids[i]].id,
                         metadata |-> d.vectors[ids[i]].metadata,
                         vec |-> to_json(d.vectors[ids[i]].vec)]]
    IN [exists |-> TRUE, dim |-> d.dim, nextId |-> d.nextId,
        vectors |-> IF ids = <<>> THEN JsonNull ELSE JsonArray(j_vectors)]

\* the loop of load over j["vectors"]: vectors[data.id] = data, in order,
\* until a record cannot be read
RECURSIVE loadVectors(_, _)
loadVectors(items, vectors) ==
    IF items = <<>> THEN [vectors |-> vectors, threw |-> FALSE]
    ELSE LET data == Head(items)
             vec == from_json(data.vec)
         IN IF vec.threw THEN [vectors |-> vectors, threw |-> TRUE]
            ELSE loadVectors(Tail(items),
                    (data.id :> [id |-> data.id, vec |-> vec.val,
                                 metadata |-> data.metadata])
                        @@ vectors)

\* VectorDB::load() of a document written by save(): nothing when there is
\* no file, else the fields, the records and rebuildIndex(); an exception,
\* with what was read so far, when a record cannot be read
load(d, f, ls) ==
    IF ~f.exists THEN Returns(d, <<>>)
    ELSE LET items == IF f.vectors.type = "array" THEN f.vectors.items ELSE <<>>
             loaded == loadVectors(items, <<>>)
             read == [d EXCEPT !.dim = f.dim, !.nextId = f.nextId,
                               !.vectors = loaded.vectors]
         IN IF loaded.threw
            THEN Throws(read, "Database file is corrupted (missing fields)")
            ELSE Returns(rebuildIndex(read, ls), <<>>)

\* the layers load may draw when it reads f
LoadLayers(f) ==
    IF f.exists /\ f.vectors.type = "array"
    THEN [1 .. Cardinality({x.id : x \in Range(f.vectors.items)}) -> getRandomLayer(RebuildM)]
    ELSE {<<>>}

\* VectorDB::init(dimension): the object and the file afterwards
init(d, f, dimension) ==
    IF f.exists
    THEN [db |-> d, file |-> f, threw |-> TRUE,
          what |-> "Database file already exists. Cannot initialize."]
    ELSE LET cleared == [d EXCEPT !.dim = dimension, !.nextId = 1, !.vectors = <<>>]
             built == rebuildIndex(cleared, <<>>)
         IN [db |-> built, file |-> save(built), threw |-> FALSE, what |-> ""]

\* an addVector that numbers the record by the count of records (a variant
\* "ids are never handed out again" has to tell from the code)
addVectorCounts(d, vec, metadata) ==
    IF Len(vec) # d.dim THEN Throws(d, "Vector dimension mismatch.")
    ELSE LET id == Cardinality(DOMAIN d.vectors) + 1
             data == [id |-> id, vec |-> vec, metadata |-> metadata]
         IN Returns([d EXCEPT !.nextId = id + 1, !.vectors = (id :> data) @@ @], id)

\* an addVector that stores the record before it checks the length (a
\* variant "a mismatch never mutates" has to tell from the code)
addVectorThenCheck(d, vec, metadata) ==
    LET id == d.nextId
        data == [id |-> id, vec |-> vec, metadata |-> metadata]
        stored == [d EXCEPT !.nextId = id + 1, !.vectors = (id :> data) @@ @]
    IN IF Len(vec) # d.dim THEN Throws(stored, "Vector dimension mismatch.")
       ELSE Returns(stored, id)

\* VectorDB::addVector(vec, metadata)
addVector(d, vec, metadata) ==
    IF Len(vec) # d.dim THEN Throws(d, "Vector dimension mismatch.")
    ELSE LET id == d.nextId
             data == [id |-> id, vec |-> vec, metadata |-> metadata]
         IN Returns([d EXCEPT !.nextId = id + 1, !.vectors = (id :> data) @@ @], id)

\* a getVector that reads vectors[id] before it looks whether id is there;
\* std::map::operator[] inserts a default VectorData for a missing key
getVectorSubscript(d, id) ==
    IF id \in DOMAIN d.vectors
    THEN Returns(d, [first |-> d.vectors[id], second |-> TRUE])
    ELSE Returns([d EXCEPT !.vectors = (id :> [id |-> 0, vec |-> <<>>, metadata |-> ""]) @@ @],
                 [first |-> <<>>, second |-> FALSE])

\* VectorDB::getVector(id): the pair (data, found)
getVector(d, id) ==
    IF id \in DOMAIN d.vectors
    THEN Returns(d, [first |-> d.vectors[id], second |-> TRUE])
    ELSE Returns(d, [first |-> <<>>, second |-> FALSE])

\* VectorDB::updateVector(id, vec, metadata)
updateVector(d, id, vec, metadata) ==
    IF id \notin DOMAIN d.vectors THEN Returns(d, FALSE)
    ELSE IF Len(vec) # d.dim THEN Throws(d, "Vector dimension mismatch.")
    ELSE Returns([d EXCEPT !.vectors[id].vec = vec,
                           !.vectors[id].metadata = metadata], TRUE)

\* VectorDB::deleteVector(id)
deleteVector(d, id) ==
    IF id \notin DOMAIN d.vectors THEN Returns(d, FALSE)
    ELSE Returns([d EXCEPT !.vectors =
                    [i \in (DOMAIN d.vectors) \ {id} |-> d.vectors[i]]], TRUE)

\* a translation that takes the ids of the store to be 1, 2, ... without gaps
\* (a variant the id translation has to tell from the code)
RECURSIVE translateDense(_, _)
translateDense(queue, ids) ==
    IF queue = <<>> THEN <<>>
    ELSE <<<<Head(queue)[2] + 1, Head(queue)[1]>>>> \o translateDense(Tail(queue), ids)

\* the while loop of search over result_queue (popped farthest first): the
\* pairs (external_id, dist) of the labels internal_to_external_id knows
RECURSIVE translate(_, _)
translate(queue, ids) ==
    IF queue = <<>> THEN <<>>
    ELSE LET dist_ == Head(queue)[1]
             internal_id == Head(queue)[2]
         IN (IF internal_id \in 0 .. Len(ids) - 1
             THEN <<<<ids[internal_id + 1], dist_>>>>
             ELSE <<>>) \o translate(Tail(queue), ids)

\* the list left as the heap popped it, farthest first
asPopped(s) == s

\* std::reverse
Reverse(s) == [i \in 1 .. Len(s) |-> s[Len(s) + 1 - i]]

\* a search that treats an index without nodes as an error (a variant
\* "empty result rather than an error" has to tell from the code)
searchEmptyThrows(d, query, k) ==
    IF d.hnsw_index = NullIndex
    THEN Throws(d, "Index is not built. Run 'rebuild' first.")
    ELSE IF Len(query) # d.dim THEN Throws(d, "Query vector dimension mismatch.")
    ELSE IF d.hnsw_index.enter_point_ = -1 THEN Throws(d, "Index is empty.")
    ELSE LET result_queue == searchKnn(d.hnsw_index, query, k)
             ids == Keys(DOMAIN d.vectors)
         IN Returns(d, Reverse(translate(result_queue, ids)))

\* VectorDB::search(query, k): the pairs (id, distance), nearest first
search(d, query, k) ==
    IF d.hnsw_index = NullIndex
    THEN Throws(d, "Index is not built. Run 'rebuild' first.")
    ELSE IF Len(query) # d.dim THEN Throws(d, "Query vector dimension mismatch.")
    ELSE LET result_queue == searchKnn(d.hnsw_index, query, k)
             ids == Keys(DOMAIN d.vectors)
         IN Returns(d, Reverse(translate(result_queue, ids)))

----------------------------------------------------------------------------
(* The index on its own: a caller constructs an HNSW and calls addPoint    *)
(* and searchKnn on it.                                                    *)

\* the constructor arguments tried: M, M_max0 >= M and ef_construction
Configs == {c \in [M : 1 .. 3, M_max0 : 1 .. 3, ef : {1, 3}] : c.M <= c.M_max0}

\* the vectors of dimension dim
Points(dim) == [1 .. dim -> Coords]

\* the label the caller gives its n-th point (0-based)
LabelOf(n) == 10 + n

\* the value of twin where no second index is kept
NoTwin == [null |-> TRUE]

\* std::mutex that no thread owns
Unlocked == 0

\* the value of call while the caller is between two calls
NoCall == [op |-> "none"]

Init ==
    /\ index \in {HNSW(1, c.M, c.M_max0, c.ef) : c \in Configs}
    /\ linked = <<>>
    /\ db = VectorDB
    /\ file = NoFile
    /\ call = NoCall
    /\ ret = <<>>
    /\ mutex_ = Unlocked
    /\ returned = <<>>
    /\ drawn = <<>>
    /\ twin = NoTwin
    /\ pc = <<>>

\* the caller calls addPoint(p, label); getRandomLayer draws l
AddPoint ==
    /\ call = NoCall
    /\ Len(index.nodes_) < MaxNodes
    /\ \E p \in Points(index.dim_), l \in getRandomLayer(index.M_) :
          LET done == addPoint(index, p, LabelOf(Len(index.nodes_)), l)
          IN /\ index' = done.h
             /\ linked' = done.linked
    /\ UNCHANGED <<db, file, call, ret, mutex_, pc, returned, drawn, twin>>

\* the caller calls searchKnn(q, k) and holds the heap it returned
SearchKnn ==
    /\ call = NoCall
    /\ \E q \in Points(index.dim_), k \in 0 .. MaxK :
          /\ call' = [op |-> "searchKnn", q |-> q, k |-> k]
          /\ ret' = searchKnn(index, q, k)
    /\ UNCHANGED <<index, linked, db, file, mutex_, pc, returned, drawn, twin>>

\* the caller drops the heap it was returned
Return ==
    /\ call # NoCall
    /\ call' = NoCall
    /\ ret' = <<>>
    /\ UNCHANGED <<index, linked, db, file, mutex_, pc, returned, drawn, twin>>

Next == AddPoint \/ SearchKnn \/ Return

Spec == Init /\ [][Next]_vars

----------------------------------------------------------------------------
(* The library: a caller constructs a VectorDB and calls its methods.      *)

\* the dimensions passed to init
Dims == {1, 2}

\* the vectors passed to addVector and updateVector: constant vectors of
\* either dimension
DbVecs == {[i \in 1 .. d |-> c] : d \in Dims, c \in {0, 2}}

\* the queries passed to search
DbQueries == {[i \in 1 .. d |-> c] : d \in Dims, c \in Coords}

\* the metadata passed to addVector and updateVector
Metas == {"m1"}

\* the ids passed to getVector, updateVector and deleteVector
DbIds == 1 .. MaxRecords + 1

\* what the caller sees of an outcome
Seen(r) == [threw |-> r.threw, what |-> r.what, val |-> r.val]

InitDB ==
    /\ index = NullIndex
    /\ linked = <<>>
    /\ db = VectorDB
    /\ file = NoFile
    /\ call = NoCall
    /\ ret = <<>>
    /\ mutex_ = Unlocked
    /\ returned = <<>>
    /\ drawn = <<>>
    /\ twin = NoTwin
    /\ pc = <<>>

DbInit ==
    /\ call = NoCall
    /\ \E d \in Dims :
          LET r == init(db, file, d)
          IN /\ db' = r.db
             /\ file' = r.file
             /\ call' = [op |-> "init", dimension |-> d]
             /\ ret' = [threw |-> r.threw, what |-> r.what, val |-> <<>>]
    /\ UNCHANGED <<index, linked, mutex_, pc, returned, drawn, twin>>

DbAddVector ==
    /\ call = NoCall
    /\ db.nextId <= MaxRecords
    /\ \E vec \in DbVecs, metadata \in Metas :
          LET r == addVector(db, vec, metadata)
          IN /\ db' = r.db
             /\ call' = [op |-> "addVector", vec |-> vec, metadata |-> metadata]
             /\ ret' = Seen(r)
             /\ returned' = IF r.threw THEN returned ELSE Append(returned, r.val)
    /\ UNCHANGED <<index, linked, file, mutex_, pc, drawn, twin>>

DbGetVector ==
    /\ call = NoCall
    /\ \E id \in DbIds :
          LET r == getVector(db, id)
          IN /\ db' = r.db
             /\ call' = [op |-> "getVector", id |-> id]
             /\ ret' = Seen(r)
    /\ UNCHANGED <<index, linked, file, mutex_, pc, returned, drawn, twin>>

DbUpdateVector ==
    /\ call = NoCall
    /\ \E id \in DbIds, vec \in DbVecs, metadata \in Metas :
          LET r == updateVector(db, id, vec, metadata)
          IN /\ db' = r.db
             /\ call' = [op |-> "updateVector", id |-> id, vec |-> vec,
                         metadata |-> metadata]
             /\ ret' = Seen(r)
    /\ UNCHANGED <<index, linked, file, mutex_, pc, returned, drawn, twin>>

DbDeleteVector ==
    /\ call = NoCall
    /\ \E id \in DbIds :
          LET r == deleteVector(db, id)
          IN /\ db' = r.db
             /\ call' = [op |-> "deleteVector", id |-> id]
             /\ ret' = Seen(r)
    /\ UNCHANGED <<index, linked, file, mutex_, pc, returned, drawn, twin>>

DbRebuildIndex ==
    /\ call = NoCall
    /\ \E ls \in RebuildLayers(db) :
          /\ db' = rebuildIndex(db, ls)
          /\ call' = [op |-> "rebuildIndex"]
          /\ ret' = [threw |-> FALSE, what |-> "", val |-> <<>>]
    /\ UNCHANGED <<index, linked, file, mutex_, pc, returned, drawn, twin>>

DbSearch ==
    /\ call = NoCall
    /\ \E query \in DbQueries, k \in 0 .. MaxK :
          LET r == search(db, query, k)
          IN /\ db' = r.db
             /\ call' = [op |-> "search", query |-> query, k |-> k]
             /\ ret' = Seen(r)
    /\ UNCHANGED <<index, linked, file, mutex_, pc, returned, drawn, twin>>

\* the caller takes the outcome and goes on
DbReturn ==
    /\ call # NoCall
    /\ call' = NoCall
    /\ ret' = <<>>
    /\ UNCHANGED <<index, linked, db, file, mutex_, pc, returned, drawn, twin>>

NextDB ==
    \/ DbInit
    \/ DbAddVector
    \/ DbGetVector
    \/ DbUpdateVector
    \/ DbDeleteVector
    \/ DbRebuildIndex
    \/ DbSearch
    \/ DbReturn

SpecDB == InitDB /\ [][NextDB]_vars

----------------------------------------------------------------------------
(* The library and its file: a caller adds, updates and deletes records,   *)
(* calls save(), and constructs a new VectorDB on the same path and calls  *)
(* load().  The vectors passed include one with a float that is not finite.*)

\* the vectors passed to addVector and updateVector
StoreVecs == {<<0>>, <<Infinity>>}

StAddVector ==
    /\ call = NoCall
    /\ db.nextId <= MaxRecords
    /\ Len(returned) <= MaxRecords
    /\ \E vec \in StoreVecs, metadata \in Metas :
          LET r == addVector(db, vec, metadata)
          IN /\ db' = r.db
             /\ call' = [op |-> "addVector", vec |-> vec, metadata |-> metadata]
             /\ ret' = Seen(r)
             /\ returned' = IF r.threw THEN returned ELSE Append(returned, r.val)
    /\ UNCHANGED <<index, linked, file, mutex_, pc, drawn, twin>>

StUpdateVector ==
    /\ call = NoCall
    /\ \E id \in DbIds, vec \in StoreVecs, metadata \in Metas :
          LET r == updateVector(db, id, vec, metadata)
          IN /\ db' = r.db
             /\ call' = [op |-> "updateVector", id |-> id, vec |-> vec,
                         metadata |-> metadata]
             /\ ret' = Seen(r)
    /\ UNCHANGED <<index, linked, file, mutex_, pc, returned, drawn, twin>>

StSave ==
    /\ call = NoCall
    /\ file' = save(db)
    /\ call' = [op |-> "save"]
    /\ ret' = [threw |-> FALSE, what |-> "", val |-> <<>>]
    /\ UNCHANGED <<index, linked, db, mutex_, pc, returned, drawn, twin>>

\* VectorDB db2(path); db2.load(): the caller goes on with the new object
StLoad ==
    /\ call = NoCall
    /\ \E ls \in LoadLayers(file) :
          LET r == load(VectorDB, file, ls)
          IN /\ db' = r.db
             /\ call' = [op |-> "load"]
             /\ ret' = Seen(r)
    /\ UNCHANGED <<index, linked, file, mutex_, pc, returned, drawn, twin>>

NextStore ==
    \/ DbInit
    \/ StAddVector
    \/ StUpdateVector
    \/ DbDeleteVector
    \/ StSave
    \/ StLoad
    \/ DbReturn

SpecStore == InitDB /\ [][NextStore]_vars

----------------------------------------------------------------------------
(* The command line: every run of main() constructs a VectorDB on the      *)
(* database file, executes one command and exits.  An argument is the       *)
(* sequence of its characters; the command and the metadata are strings.    *)

\* the decimal digits, '0' first
DigitChars == <<"0", "1", "2", "3", "4", "5", "6", "7", "8", "9">>
IsDigit(c) == \E i \in 1 .. Len(DigitChars) : DigitChars[i] = c
DigitValue(c) == (CHOOSE i \in 1 .. Len(DigitChars) : DigitChars[i] = c) - 1

\* the digits a numeric conversion consumes: the longest prefix of digits
RECURSIVE DigitPrefix(_)
DigitPrefix(s) ==
    IF s = <<>> \/ ~IsDigit(Head(s)) THEN <<>>
    ELSE <<Head(s)>> \o DigitPrefix(Tail(s))

RECURSIVE Decimal(_, _)
Decimal(ds, acc) ==
    IF ds = <<>> THEN acc ELSE Decimal(Tail(ds), 10 * acc + DigitValue(Head(ds)))

\* std::stoi, std::stoll and std::stof on an argument of digits and other
\* characters: the value of the leading digits, std::invalid_argument when
\* there is none
stoi(s) ==
    LET ds == DigitPrefix(s)
    IN IF ds = <<>> THEN [threw |-> TRUE, what |-> "stoi", val |-> 0]
       ELSE [threw |-> FALSE, what |-> "", val |-> Decimal(ds, 0)]
stoll(s) == [stoi(s) EXCEPT !.what = IF @ = "" THEN "" ELSE "stoll"]
stof(s) == [stoi(s) EXCEPT !.what = IF @ = "" THEN "" ELSE "stof"]

\* the items std::getline(ss, item, ',') yields until the stream ends
RECURSIVE getline(_)
getline(s) ==
    IF s = <<>> THEN <<>>
    ELSE IF \E i \in 1 .. Len(s) : s[i] = ","
    THEN LET i == CHOOSE i \in 1 .. Len(s) : s[i] = "," /\ \A j \in 1 .. i - 1 : s[j] # ","
         IN <<SubSeq(s, 1, i - 1)>> \o getline(SubSeq(s, i + 1, Len(s)))
    ELSE <<s>>

\* parseVector(s, expectedDim)
parseVector(s, expectedDim) ==
    LET items == getline(s)
        vec == [i \in 1 .. Len(items) |-> stof(items[i])]
    IN IF \E i \in 1 .. Len(items) : vec[i].threw
       THEN [threw |-> TRUE, val |-> <<>>,
             what |-> "Invalid vector format. Must be comma-separated floats."]
       ELSE IF Len(vec) # expectedDim
       THEN [threw |-> TRUE, val |-> <<>>, what |-> "Vector dimension mismatch."]
       ELSE [threw |-> FALSE, what |-> "", val |-> [i \in 1 .. Len(vec) |-> vec[i].val]]

\* json::parse of a metadata argument: the documents of Metas parse to
\* themselves, anything else is a parse error
json_parse(s) ==
    IF s \in Metas THEN [threw |-> FALSE, what |-> "", val |-> s]
    ELSE [threw |-> TRUE, what |-> "parse error", val |-> ""]

\* what main writes to std::cerr: nothing, a usage text, or an "Error:" line
NoErr == <<>>
UsageErr == <<"Usage">>
UnknownCommandErr == <<"Unknown command", "Usage">>
NotFoundErr == <<"Error", "Vector with ID not found.">>
CaughtErr(what) == <<"Error", what>>

\* how a run of main ends: the database file, the exit status, std::cerr and
\* the value the command printed
Exit(f, status, err, out) == [file |-> f, exit |-> status, err |-> err, out |-> out]

\* argv[n] and argc
Arg(argv, n) == argv[n + 1]
Argc(argv) == Len(argv)

\* The branches of main.  Every branch but init calls db.load() once its
\* argument count is accepted: loaded is what that call gives, d the
\* VectorDB it leaves.

\* the branch of main for init
main_init(argv, f) ==
    IF Argc(argv) # 4 THEN Exit(f, 1, UsageErr, <<>>)
    ELSE LET dim == stoi(Arg(argv, 3))
         IN IF dim.threw THEN Exit(f, 1, CaughtErr(dim.what), <<>>)
            ELSE LET r == init(VectorDB, f, dim.val)
                 IN IF r.threw THEN Exit(f, 1, CaughtErr(r.what), <<>>)
                    ELSE Exit(r.file, 0, NoErr, dim.val)

\* the branch of main for add
main_add(argv, f, loaded) ==
    IF Argc(argv) # 5 THEN Exit(f, 1, UsageErr, <<>>)
    ELSE IF loaded.threw THEN Exit(f, 1, CaughtErr(loaded.what), <<>>)
    ELSE LET d == loaded.db IN
         LET vec == parseVector(Arg(argv, 3), d.dim)
             metadata == json_parse(Arg(argv, 4))
         IN IF vec.threw THEN Exit(f, 1, CaughtErr(vec.what), <<>>)
            ELSE IF metadata.threw THEN Exit(f, 1, CaughtErr(metadata.what), <<>>)
            ELSE LET r == addVector(d, vec.val, metadata.val)
                 IN IF r.threw THEN Exit(f, 1, CaughtErr(r.what), <<>>)
                    ELSE Exit(save(r.db), 0, NoErr, r.val)

\* the branch of main for get
main_get(argv, f, loaded) ==
    IF Argc(argv) # 4 THEN Exit(f, 1, UsageErr, <<>>)
    ELSE IF loaded.threw THEN Exit(f, 1, CaughtErr(loaded.what), <<>>)
    ELSE LET d == loaded.db IN
         LET id == stoll(Arg(argv, 3))
         IN IF id.threw THEN Exit(f, 1, CaughtErr(id.what), <<>>)
            ELSE LET result == getVector(d, id.val).val
                 IN IF result.second THEN Exit(f, 0, NoErr, result.first)
                    ELSE Exit(f, 0, NotFoundErr, <<>>)

\* the branch of main for search
main_search(argv, f, loaded) ==
    IF Argc(argv) # 5 THEN Exit(f, 1, UsageErr, <<>>)
    ELSE IF loaded.threw THEN Exit(f, 1, CaughtErr(loaded.what), <<>>)
    ELSE LET d == loaded.db IN
         LET k == stoi(Arg(argv, 3))
         IN IF k.threw THEN Exit(f, 1, CaughtErr(k.what), <<>>)
            ELSE LET query == parseVector(Arg(argv, 4), d.dim)
                 IN IF query.threw THEN Exit(f, 1, CaughtErr(query.what), <<>>)
                    ELSE LET results == search(d, query.val, k.val)
                         IN IF results.threw THEN Exit(f, 1, CaughtErr(results.what), <<>>)
                            ELSE Exit(f, 0, NoErr, results.val)

\* the branch of main for rebuild; ls2 are the layers of its rebuildIndex().
\* The index it builds is in memory only and is gone when main returns.
main_rebuild(argv, f, loaded, ls2) ==
    IF loaded.threw THEN Exit(f, 1, CaughtErr(loaded.what), <<>>)
    ELSE LET rebuilt == rebuildIndex(loaded.db, ls2)
         IN Exit(f, 0, NoErr, <<>>)

\* the branch of main for delete
main_delete(argv, f, loaded) ==
    IF Argc(argv) # 4 THEN Exit(f, 1, UsageErr, <<>>)
    ELSE IF loaded.threw THEN Exit(f, 1, CaughtErr(loaded.what), <<>>)
    ELSE LET d == loaded.db IN
         LET id == stoll(Arg(argv, 3))
         IN IF id.threw THEN Exit(f, 1, CaughtErr(id.what), <<>>)
            ELSE LET r == deleteVector(d, id.val)
                 IN IF r.val THEN Exit(save(r.db), 0, NoErr, id.val)
                    ELSE Exit(f, 0, NotFoundErr, <<>>)

\* the branch of main for update
main_update(argv, f, loaded) ==
    IF Argc(argv) # 6 THEN Exit(f, 1, UsageErr, <<>>)
    ELSE IF loaded.threw THEN Exit(f, 1, CaughtErr(loaded.what), <<>>)
    ELSE LET d == loaded.db IN
         LET id == stoll(Arg(argv, 3))
         IN IF id.threw THEN Exit(f, 1, CaughtErr(id.what), <<>>)
            ELSE LET vec == parseVector(Arg(argv, 4), d.dim)
                     metadata == json_parse(Arg(argv, 5))
                 IN IF vec.threw THEN Exit(f, 1, CaughtErr(vec.what), <<>>)
                    ELSE IF metadata.threw
                    THEN Exit(f, 1, CaughtErr(metadata.what), <<>>)
                    ELSE LET r == updateVector(d, id.val, vec.val, metadata.val)
                         IN IF r.threw THEN Exit(f, 1, CaughtErr(r.what), <<>>)
                            ELSE IF r.val THEN Exit(save(r.db), 0, NoErr, id.val)
                            ELSE Exit(f, 0, NotFoundErr, <<>>)

\* main(argc, argv) run on the database file f; ls are the layers load()
\* draws and ls2 those the rebuild command draws
main(argv, f, ls, ls2) ==
    IF Argc(argv) < 3 THEN Exit(f, 1, UsageErr, <<>>)
    ELSE LET command == Arg(argv, 2)
             loaded == load(VectorDB, f, ls)
         IN CASE command = "init" -> main_init(argv, f)
              [] command = "add" -> main_add(argv, f, loaded)
              [] command = "get" -> main_get(argv, f, loaded)
              [] command = "search" -> main_search(argv, f, loaded)
              [] command = "rebuild" -> main_rebuild(argv, f, loaded, ls2)
              [] command = "delete" -> main_delete(argv, f, loaded)
              [] command = "update" -> main_update(argv, f, loaded)
              [] OTHER -> Exit(f, 1, UnknownCommandErr, <<>>)

\* the decimal numeral of n < 10 and the comma-separated text of a vector
Numeral(n) == <<DigitChars[n + 1]>>
RECURSIVE Csv(_)
Csv(v) ==
    IF v = <<>> THEN <<>>
    ELSE IF Len(v) = 1 THEN Numeral(v[1])
    ELSE Numeral(v[1]) \o <<",">> \o Csv(Tail(v))

\* the arguments typed: an argument that is not a number, and one that
\* starts as a number
NotANumber == <<"x">>
IdArgs == {Numeral(id) : id \in DbIds} \cup {NotANumber, <<"1", "x">>}
DimArgs == {Numeral(d) : d \in Dims} \cup {NotANumber}
KArgs == {Numeral(k) : k \in 0 .. MaxK} \cup {NotANumber}
VecArgs == {Csv(v) : v \in DbVecs} \cup {<<>>, NotANumber}
QueryArgs == {Csv(q) : q \in DbQueries} \cup {NotANumber}
MetaArgs == Metas \cup {"{"}

\* argv[0] and argv[1]
ProgName == "vectordb"
DbPath == "db"

\* the command lines typed: too few arguments to name a command, an
\* unknown command, and every command with and without its last argument
CommandLines ==
    LET of(command, argss) == {<<ProgName, DbPath, command>> \o args : args \in argss}
    IN {<<ProgName>>, <<ProgName, DbPath>>, <<ProgName, DbPath, "list">>}
       \cup of("init", {<<>>} \cup {<<a>> : a \in DimArgs})
       \cup of("add", {<<v>> : v \in VecArgs}
                         \cup {<<v, m>> : v \in VecArgs, m \in MetaArgs})
       \cup of("get", {<<>>} \cup {<<a>> : a \in IdArgs})
       \cup of("search", {<<k>> : k \in KArgs}
                            \cup {<<k, q>> : k \in KArgs, q \in QueryArgs})
       \cup of("rebuild", {<<>>})
       \cup of("delete", {<<>>} \cup {<<a>> : a \in IdArgs})
       \cup of("update", {<<a, v>> : a \in IdArgs, v \in VecArgs}
                            \cup {<<a, v, m>> : a \in IdArgs, v \in VecArgs,
                                                m \in MetaArgs})

\* the command line names the command
Names(argv, command) == IF Argc(argv) < 3 THEN FALSE ELSE Arg(argv, 2) = command

\* the file has room for the record an add would write
FileRoom == IF file.exists THEN file.nextId <= MaxRecords ELSE TRUE

\* one run of main on a command line: the file, the exit status and the
\* output afterwards
CliMain ==
    /\ call = NoCall
    /\ \E argv \in CommandLines :
          /\ Names(argv, "add") => FileRoom
          /\ \E ls \in LoadLayers(file),
                ls2 \in IF Names(argv, "rebuild") THEN LoadLayers(file) ELSE {<<>>} :
                \E r \in {main(argv, file, ls, ls2)} :
                    /\ file' = r.file
                    /\ call' = [op |-> "main", argv |-> argv]
                    /\ ret' = [exit |-> r.exit, err |-> r.err, out |-> r.out]
    /\ UNCHANGED <<index, linked, db, mutex_, pc, returned, drawn, twin>>

\* the shell takes the exit status and goes on
CliReturn ==
    /\ call # NoCall
    /\ call' = NoCall
    /\ ret' = <<>>
    /\ UNCHANGED <<index, linked, db, file, mutex_, pc, returned, drawn, twin>>

NextCLI == CliMain \/ CliReturn

SpecCLI == InitDB /\ [][NextCLI]_vars

----------------------------------------------------------------------------
(* Threads: several threads call addPoint and searchKnn on one index.  A   *)
(* call is a sequence of steps; pc[t].at names the source line thread t is *)
(* about to execute.  The std::unique_lock of a call releases mutex_ when  *)
(* the call returns.                                                       *)

\* the threads
Threads == {1, 2, 3}

\* the points the threads insert, the query and the k they search with
ThreadPoints == {<<0>>, <<2>>}
ThreadQuery == <<1>>
ThreadK == 1

\* a thread that is not inside a call
Idle == [at |-> "idle"]

\* a lock() that returns at once whoever owns the mutex (a variant writer
\* exclusion has to tell from the code)
lockAtOnce(m, t) == TRUE

\* std::mutex::lock() returns to thread t only once no thread owns the mutex
lock(m, t) == m = Unlocked

\* the positions at which a thread is inside the body of addPoint (past the
\* construction of its lock, lines 56..99) and of searchKnn (lines 104..130)
InAddPoint(t) == pc[t].at \in {"addPoint:56", "addPoint:69", "addPoint:100"}
InSearchKnn(t) == pc[t].at \in {"searchKnn:104", "searchKnn:130"}

\* the addPoint calls made that have not pushed their node yet
Pending == {t \in Threads : pc[t].at \in {"addPoint:54", "addPoint:56"}}

InitThreads ==
    /\ index = HNSW(1, RebuildM, RebuildMmax0, DefaultEfConstruction)
    /\ linked = <<>>
    /\ db = VectorDB
    /\ file = NoFile
    /\ call = NoCall
    /\ ret = <<>>
    /\ mutex_ = Unlocked
    /\ returned = <<>>
    /\ drawn = <<>>
    /\ twin = NoTwin
    /\ pc = [t \in Threads |-> Idle]

\* thread t calls addPoint(p, label); a point is labelled by its coordinate
TCallAddPoint(t) ==
    /\ pc[t] = Idle
    /\ Len(index.nodes_) + Cardinality(Pending) < MaxNodes
    /\ \E p \in ThreadPoints :
          pc' = [pc EXCEPT ![t] = [at |-> "addPoint:54", p |-> p, label |-> LabelOf(p[1])]]
    /\ UNCHANGED <<index, linked, db, file, call, ret, mutex_, returned, drawn, twin>>

\* thread t calls searchKnn(q, k)
TCallSearchKnn(t) ==
    /\ pc[t] = Idle
    /\ pc' = [pc EXCEPT ![t] = [at |-> "searchKnn:102", q |-> ThreadQuery, k |-> ThreadK]]
    /\ UNCHANGED <<index, linked, db, file, call, ret, mutex_, returned, drawn, twin>>

\* std::unique_lock<std::mutex> lock(mutex_), the first statement of both
TLock(t) ==
    /\ pc[t].at \in {"addPoint:54", "searchKnn:102"}
    /\ lock(mutex_, t)
    /\ mutex_' = t
    /\ pc' = [pc EXCEPT ![t].at =
                IF pc[t].at = "addPoint:54" THEN "addPoint:56" ELSE "searchKnn:104"]
    /\ UNCHANGED <<index, linked, db, file, call, ret, returned, drawn, twin>>

\* addPoint lines 56..67: the node is pushed, the layer drawn, L_ raised; the
\* first node becomes the entry point and the call returns
TAddPointPush(t) ==
    /\ pc[t].at = "addPoint:56"
    /\ \E l \in getRandomLayer(index.M_) :
          LET id == Len(index.nodes_)
              pushed == [index EXCEPT
                            !.nodes_ = Append(@, Node(pc[t].p, pc[t].label, index.dim_)),
                            !.L_ = IF l > @ THEN l ELSE @]
          IN IF index.enter_point_ = -1
             THEN /\ index' = [pushed EXCEPT !.enter_point_ = id]
                  /\ pc' = [pc EXCEPT ![t] = [at |-> "addPoint:100"]]
             ELSE /\ index' = pushed
                  /\ pc' = [pc EXCEPT ![t] =
                              [at |-> "addPoint:69", p |-> pc[t].p, id |-> id, l |-> l]]
    /\ UNCHANGED <<linked, db, file, call, ret, mutex_, returned, drawn, twin>>

\* addPoint lines 69..99: the descent and the linking loop
TAddPointLink(t) ==
    /\ pc[t].at = "addPoint:69"
    /\ LET ep == descend(index, pc[t].p, index.enter_point_, index.L_, pc[t].l)
       IN index' = linkLayers(index, pc[t].p, pc[t].id, ep,
                              Min(pc[t].l, index.L_), <<>>).h
    /\ pc' = [pc EXCEPT ![t] = [at |-> "addPoint:100"]]
    /\ UNCHANGED <<linked, db, file, call, ret, mutex_, returned, drawn, twin>>

\* searchKnn lines 104..129: the search, up to its return statement
TSearchKnn(t) ==
    /\ pc[t].at = "searchKnn:104"
    /\ pc' = [pc EXCEPT ![t] =
                [at |-> "searchKnn:130",
                 results |-> searchKnn(index, pc[t].q, pc[t].k)]]
    /\ UNCHANGED <<index, linked, db, file, call, ret, mutex_, returned, drawn, twin>>

\* the call returns: the destructor of its lock unlocks mutex_
TReturn(t) ==
    /\ pc[t].at \in {"addPoint:100", "searchKnn:130"}
    /\ mutex_' = Unlocked
    /\ pc' = [pc EXCEPT ![t] = Idle]
    /\ UNCHANGED <<index, linked, db, file, call, ret, returned, drawn, twin>>

NextThreads ==
    \E t \in Threads :
        \/ TCallAddPoint(t)
        \/ TCallSearchKnn(t)
        \/ TLock(t)
        \/ TAddPointPush(t)
        \/ TAddPointLink(t)
        \/ TSearchKnn(t)
        \/ TReturn(t)

SpecThreads == InitThreads /\ [][NextThreads]_vars

----------------------------------------------------------------------------
(* Two indices: index and twin are constructed with the same arguments and *)
(* given the same (vector, label) inserts, and getRandomLayer returns the  *)
(* same layers to both.  The caller searches index between the inserts and *)
(* never searches twin.                                                    *)

InitTwin ==
    /\ index \in {HNSW(1, c.M, c.M_max0, c.ef) : c \in Configs}
    /\ twin = [h |-> index, drawn |-> <<>>]
    /\ linked = <<>>
    /\ db = VectorDB
    /\ file = NoFile
    /\ call = NoCall
    /\ ret = <<>>
    /\ mutex_ = Unlocked
    /\ returned = <<>>
    /\ drawn = <<>>
    /\ pc = <<>>

\* addPoint(p, label) on index and on twin, both drawing layer l
TwinAddPoint ==
    /\ call = NoCall
    /\ Len(index.nodes_) < MaxNodes
    /\ \E p \in Points(index.dim_), l \in getRandomLayer(index.M_) :
          /\ index' = addPoint(index, p, LabelOf(Len(index.nodes_)), l).h
          /\ drawn' = Append(drawn, l)
          /\ twin' = [h |-> addPoint(twin.h, p, LabelOf(Len(twin.h.nodes_)), l).h,
                      drawn |-> Append(twin.drawn, l)]
    /\ UNCHANGED <<linked, db, file, call, ret, mutex_, pc, returned>>

\* searchKnn(q, k) on index
TwinSearchKnn ==
    /\ call = NoCall
    /\ \E q \in Points(index.dim_), k \in 0 .. MaxK :
          /\ call' = [op |-> "searchKnn", q |-> q, k |-> k]
          /\ ret' = searchKnn(index, q, k)
          /\ index' = afterSearchKnn(index, q, k)
    /\ UNCHANGED <<linked, db, file, mutex_, pc, returned, drawn, twin>>

NextTwin == TwinAddPoint \/ TwinSearchKnn \/ Return

SpecTwin == InitTwin /\ [][NextTwin]_vars

----------------------------------------------------------------------------
(* Properties of the index *)

\* the internal ids of the index
Ids == 0 .. Len(index.nodes_) - 1
Layers == 0 .. LayerCap

\* friends_v[L]: empty where v's friends vector does not reach layer L
Friends(v, L) ==
    LET fr == index.nodes_[v + 1].friends
    IN IF Len(fr) > L THEN fr[L + 1] ELSE <<>>

\* an edge a -> b at layer L whose reverse edge is missing
OneWay(a, b, L) ==
    /\ b \in Range(Friends(a, L))
    /\ a \notin Range(Friends(b, L))

\* C1. Degree bound: every adjacency list friends_v[L] holds at most M_max(L)
\* ids, M_max0 at layer 0 and M above it (the configurations have
\* 1 <= M <= M_max0).
C1_DegreeBound ==
    \A v \in Ids, L \in Layers :
        Len(Friends(v, L)) <= M_max(index, L)

\* C1's case: an insert has pruned a list (a full list that lost an edge
\* which its other end still holds)
C1_Witness ==
    \E v \in Ids, b \in Ids, L \in Layers :
        /\ OneWay(b, v, L)
        /\ Len(Friends(v, L)) = M_max(index, L)

\* C2 as claimed. Edge symmetry between inserts: b in friends_a[L] implies
\* a in friends_b[L].
C2_Symmetric ==
    \A a \in Ids, b \in Ids, L \in Layers : ~OneWay(a, b, L)

\* C2 as amended. Between inserts an edge a -> b at layer L has its reverse
\* edge b -> a unless b's list at that layer is full (it holds M_max(L) ids).
C2_SymmetricUnlessFull ==
    \A a \in Ids, b \in Ids, L \in Layers :
        OneWay(a, b, L) => Len(Friends(b, L)) = M_max(index, L)

\* C2's case: a one-way edge next to an edge that has its reverse
C2_Witness ==
    \E a \in Ids, b \in Ids, c \in Ids, L \in Layers :
        /\ OneWay(a, b, L)
        /\ c \in Range(Friends(b, L))
        /\ b \in Range(Friends(c, L))

\* the least distance from q to a node of the index
NearestDist(q) ==
    LET ds == {dist(index, q, v, 0) : v \in Ids}
    IN CHOOSE d \in ds : \A e \in ds : d <= e

\* C3 as claimed. Exact 1-NN: on a non-empty index searchKnn(q, 1) returns one
\* entry, and its distance is the least distance from q to any inserted point.
C3_ExactNearest ==
    (call.op = "searchKnn" /\ call.k = 1 /\ Ids # {}) =>
        /\ Len(ret) = 1
        /\ ret[1][1] = NearestDist(call.q)

\* the ids of the M pairs of W that are least in (distance, id)
ClosestOf(W, M) == {n[2] : n \in Range(Take(PopAllMin(W), M))}

\* C4 as claimed. Neighbour selection: at every linking layer of the last
\* insert the neighbours taken are the M closest elements of W, distance ties
\* going to the smaller internal id.
C4_SelectsClosest ==
    \A i \in 1 .. Len(linked) :
        linked[i].neighbors = ClosestOf(linked[i].W, index.M_)

\* C7 as claimed. Result size: searchKnn(q, k) returns at most k entries.
C7_AtMostK ==
    call.op = "searchKnn" => Len(ret) <= call.k

\* C8. Layer monotonicity: a node with an edge at layer L > 0 has an edge at
\* layer L - 1.
C8_LayerMonotone ==
    \A v \in Ids, L \in 1 .. LayerCap :
        Friends(v, L) # <<>> => Friends(v, L - 1) # <<>>

\* C8's case: nodes of different heights, one with edges above layer 0 and
\* one with edges at layer 0 only
C8_Witness ==
    \E v \in Ids, w \in Ids :
        /\ Friends(v, 1) # <<>>
        /\ Friends(w, 0) # <<>>
        /\ Friends(w, 1) = <<>>

\* C9 as claimed. With two or more nodes, the entry point's friends vector
\* has an entry for the top layer L_.
C9_EntryOnTop ==
    Len(index.nodes_) >= 2 =>
        Len(index.nodes_[index.enter_point_ + 1].friends) > index.L_

\* C20. Adjacency well-formedness: every adjacency list friends_v[L] holds
\* pairwise different internal ids, each of a node of the index, and never v.
C20_WellFormedLists ==
    \A v \in Ids, L \in Layers :
        LET fr == Friends(v, L)
        IN /\ \A i \in 1 .. Len(fr), j \in 1 .. Len(fr) : i # j => fr[i] # fr[j]
           /\ \A i \in 1 .. Len(fr) : fr[i] \in Ids
           /\ \A i \in 1 .. Len(fr) : fr[i] # v

\* C20's case: three points inserted, a list holding two ids at layer 0, and
\* a list pruneConnections has cut at some layer (an edge left one-way)
C20_Witness ==
    /\ Len(index.nodes_) = 3
    /\ \E v \in Ids : Len(Friends(v, 0)) = 2
    /\ \E a \in Ids, b \in Ids, L \in Layers : OneWay(a, b, L)

FriendsOf(h, v, L) ==
    LET fr == h.nodes_[v + 1].friends
    IN IF Len(fr) > L THEN fr[L + 1] ELSE <<>>

\* the pair (distance from node n to node x, x) pruneConnections orders by
Connection(h, n, x) == <<L2Sqr(h.nodes_[n + 1].data, h.nodes_[x + 1].data, h.dim_), x>>

\* C22. Pruning keeps the closest: when the insert of node id makes the list
\* of a neighbour n at layer lc exceed M_max(lc), the list afterwards holds
\* exactly M_max(lc) members of the old list (with id), and every member kept
\* is before every member dropped in the order (distance to n, internal id).
C22_PruneKeepsClosest ==
    [][Len(index'.nodes_) = Len(index.nodes_) + 1 =>
          \A i \in 1 .. Len(linked') : \A n \in linked'[i].neighbors :
             LET lc == linked'[i].lc
                 id == Len(index.nodes_)
                 grown == Range(FriendsOf(index, n, lc)) \cup {id}
                 after == Range(FriendsOf(index', n, lc))
             IN Cardinality(grown) > M_max(index, lc) =>
                   /\ after \subseteq grown
                   /\ Cardinality(after) = M_max(index, lc)
                   /\ Len(FriendsOf(index', n, lc)) = M_max(index, lc)
                   /\ \A r \in after, d \in grown \ after :
                         PairLess(Connection(index', n, r), Connection(index', n, d))]_vars

\* C22's case: the last insert linked the new node to a neighbour whose list
\* is full, holds the new node, and has lost an older node that still points
\* to it
C22_Witness ==
    /\ Len(index.nodes_) = 3
    /\ \E i \in 1 .. Len(linked) : \E n \in linked[i].neighbors, old \in Ids :
          /\ OneWay(old, n, linked[i].lc)
          /\ Len(index.nodes_) - 1 \in Range(Friends(n, linked[i].lc))
          /\ Len(Friends(n, linked[i].lc)) = M_max(index, linked[i].lc)

\* the layers a greedy walk is tried at: those getRandomLayer assigns when a
\* draw can fail, the one above them, and the cap (where ml >= 1 every node
\* is assigned the cap and the layers 1 .. LayerCap are built alike)
GreedyLayers == (0 .. Min(MaxLevel + 1, LayerCap)) \cup {LayerCap}

\* C23. Greedy descent reaches a local minimum: for the query q of the search
\* just made, every entry node ep and every layer L of GreedyLayers,
\* searchLayer(q, ep, 1, L)
\* returns exactly one node w, with its distance; w is not farther from q
\* than ep, no node of friends_w[L] is strictly closer to q than w, and an ep
\* whose friends do not reach layer L is returned itself.
C23_GreedyLocalMinimum ==
    (call.op = "searchKnn" /\ call.k = 1) =>
        \A ep \in Ids, L \in GreedyLayers :
           LET W == searchLayer(index, call.q, ep, 1, L)
           IN /\ Cardinality(W) = 1
              /\ \A w \in W :
                    /\ w[2] \in Ids
                    /\ w[1] = dist(index, call.q, w[2], L)
                    /\ w[1] <= dist(index, call.q, ep, L)
                    /\ \A f \in Range(Friends(w[2], L)) :
                          dist(index, call.q, f, L) >= w[1]
                    /\ Len(index.nodes_[ep + 1].friends) <= L => w[2] = ep

\* C23's case: on a three-node index the greedy walk from some entry node
\* ends at another node, strictly closer to the query, and from some entry
\* node whose friends do not reach the layer it ends where it began
C23_Witness ==
    /\ call.op = "searchKnn"
    /\ call.k = 1
    /\ Len(index.nodes_) = 3
    /\ \E ep \in Ids, L \in GreedyLayers :
          \E w \in searchLayer(index, call.q, ep, 1, L) :
             w[2] # ep /\ w[1] < dist(index, call.q, ep, L)
    /\ \E ep \in Ids, L \in GreedyLayers :
          /\ Len(index.nodes_[ep + 1].friends) <= L
          /\ searchLayer(index, call.q, ep, 1, L) = {<<dist(index, call.q, ep, L), ep>>}

\* the greatest of the layers in s (0, the constructor's L_, when s is empty)
MaxDrawn(s) ==
    IF s = <<>> THEN 0
    ELSE CHOOSE m \in Range(s) : \A x \in Range(s) : x <= m

\* C24. Top layer tracking: on every step L_ does not decrease, and when the
\* index is not empty afterwards, one layer has been drawn per node, every
\* drawn layer lies in 0 .. 16 and L_ is the greatest of them.
C24_TopLayerTracks ==
    [][/\ index'.L_ >= index.L_
       /\ index'.nodes_ # <<>> =>
            /\ Len(drawn') = Len(index'.nodes_)
            /\ \A i \in 1 .. Len(drawn') : drawn'[i] \in 0 .. LayerCap
            /\ index'.L_ = MaxDrawn(drawn')]_vars

\* three inserts whose layers differ, the greatest drawn neither first nor last
C24_Witness ==
    /\ Len(index.nodes_) = 3
    /\ drawn[1] < drawn[2]
    /\ drawn[3] < drawn[2]
    /\ index.L_ = drawn[2]

\* C25. The entry point is fixed: an empty index has none (-1); the first
\* node inserted becomes the entry point and gets no adjacency list; in every
\* later state, after inserts and searches alike, enter_point_ is id 0.
C25_EntryPointFixed ==
    /\ index.nodes_ = <<>> => index.enter_point_ = -1
    /\ index.nodes_ # <<>> => index.enter_point_ = 0
    /\ Len(index.nodes_) = 1 => index.nodes_[1].friends = <<>>

\* a node drawn above the first one's layer has been inserted, L_ has risen
\* to its layer, and a search has been answered since
C25_Witness ==
    /\ Len(index.nodes_) >= 2
    /\ Len(drawn) >= 2
    /\ drawn[2] > drawn[1]
    /\ index.L_ = drawn[2]
    /\ call.op = "searchKnn"
    /\ index.enter_point_ = 0

\* the ids reached from the ids in S along the layer-0 lists of h, each list
\* followed from the node that stores it
RECURSIVE Reached(_, _)
Reached(h, S) ==
    LET step == S \cup UNION {Range(FriendsOf(h, v, 0)) : v \in S}
    IN IF step = S THEN S ELSE Reached(h, step)

\* the labels in what searchKnn returned
LabelsIn(results) == {results[i][2] : i \in 1 .. Len(results)}

\* C26. Every inserted node stays findable: in every state after completed
\* addPoint calls on a non-empty index, every node is reached from the entry
\* point along layer-0 lists, and searchKnn with k = N returns the labels of
\* all N nodes, whatever the query.
C26_EveryNodeFindable ==
    index.nodes_ # <<>> =>
        /\ Reached(index, {index.enter_point_}) = Ids
        /\ \A q \in Points(index.dim_) :
              LabelsIn(searchKnn(index, q, Len(index.nodes_)))
                  = {index.nodes_[i].label : i \in 1 .. Len(index.nodes_)}

----------------------------------------------------------------------------
(* Properties of the library *)

\* the ids search(query, k) reports on d, in order (none when it throws)
SearchIds(d, query, k) ==
    LET r == search(d, query, k)
    IN IF r.threw THEN <<>> ELSE [i \in 1 .. Len(r.val) |-> r.val[i][1]]

\* C5 as claimed. Stale index: a deleteVector that returns true leaves the ids
\* that search reports, for every query and k, as they were before it.
C5_StaleSearchKeepsIds ==
    [][(call'.op = "deleteVector" /\ ret'.val = TRUE) =>
          \A query \in DbQueries, k \in 0 .. MaxK :
              SearchIds(db', query, k) = SearchIds(db, query, k)]_vars

\* the index holds the records of the store as they are now: node i is the
\* i-th record in id order, labelled i
IndexCurrent ==
    /\ db.hnsw_index # NullIndex
    /\ LET ids == Keys(DOMAIN db.vectors)
           nodes == db.hnsw_index.nodes_
       IN /\ Len(nodes) = Len(ids)
          /\ \A i \in 1 .. Len(ids) :
                /\ nodes[i].label = i - 1
                /\ nodes[i].data = db.vectors[ids[i]].vec

\* C6. Id translation after rebuild: rebuildIndex leaves an index of the
\* present records, and on such an index every pair (id, dist) that search
\* returns names a record of the store, dist being the squared Euclidean
\* distance from the query to that record's present vector.
C6_TranslatesToRecords ==
    /\ call.op = "rebuildIndex" => IndexCurrent
    /\ (call.op = "search" /\ ~ret.threw /\ IndexCurrent) =>
          \A i \in 1 .. Len(ret.val) :
              /\ ret.val[i][1] \in DOMAIN db.vectors
              /\ ret.val[i][2] = L2Sqr(call.query, db.vectors[ret.val[i][1]].vec, db.dim)

\* C6's case: record 1 was deleted, the index was rebuilt, and search
\* reports record 2, which is internal id 0
C6_Witness ==
    /\ call.op = "search"
    /\ ~ret.threw
    /\ IndexCurrent
    /\ 1 \notin DOMAIN db.vectors
    /\ Len(ret.val) = 1
    /\ ret.val[1][1] = 2

\* the call just made passed a vector whose length is not the dimension the
\* store had when it was called
Mismatch ==
    \/ call'.op \in {"addVector", "updateVector"} /\ Len(call'.vec) # db.dim
    \/ call'.op = "search" /\ Len(call'.query) # db.dim

\* the messages of the dimension errors
DimensionErrors == {"Vector dimension mismatch.", "Query vector dimension mismatch."}

\* C14 as claimed. Dimension mismatch: addVector, updateVector and search
\* given a vector of another length than dim report a dimension-mismatch
\* error and leave the records, nextId and the index as they were.
C14_MismatchIsError ==
    [][Mismatch =>
          /\ ret'.threw
          /\ ret'.what \in DimensionErrors
          /\ db' = db]_vars

\* C14 as amended. A vector of another length than dim never changes the
\* store; addVector throws the dimension error, updateVector throws it when
\* the id is in the store and returns false when it is not, search throws it
\* when there is an index and "Index is not built" when there is none.
C14_MismatchNeverMutates ==
    [][Mismatch =>
          /\ db' = db
          /\ file' = file
          /\ call'.op = "addVector" =>
                ret'.threw /\ ret'.what = "Vector dimension mismatch."
          /\ call'.op = "updateVector" =>
                IF call'.id \in DOMAIN db.vectors
                THEN ret'.threw /\ ret'.what = "Vector dimension mismatch."
                ELSE ~ret'.threw /\ ret'.val = FALSE
          /\ call'.op = "search" =>
                /\ ret'.threw
                /\ ret'.what = IF db.hnsw_index = NullIndex
                               THEN "Index is not built. Run 'rebuild' first."
                               ELSE "Query vector dimension mismatch."]_vars

\* C14's case: an update of a record of the store, and a search on a built
\* index of two records, have thrown the dimension error
C14_Witness ==
    /\ call.op \in {"updateVector", "search"}
    /\ ret.threw
    /\ ret.what \in DimensionErrors
    /\ Cardinality(DOMAIN db.vectors) = 2
    /\ db.hnsw_index # NullIndex
    /\ Len(db.hnsw_index.nodes_) = 2

\* the store holds an index that has no node
EmptyIndex == db.hnsw_index # NullIndex /\ db.hnsw_index.nodes_ = <<>>

\* C15. Empty index: searchKnn on an index with zero nodes returns an empty
\* result for every query and every k; a store that init (when it succeeds)
\* or rebuildIndex has just left with zero records holds such an index, and search on it returns
\* an empty list and throws nothing.
C15_EmptyIndexReturnsEmpty ==
    /\ EmptyIndex =>
          \A q \in DbQueries, k \in 0 .. MaxK :
             /\ searchKnn(db.hnsw_index, q, k) = <<>>
             /\ Len(q) = db.dim => search(db, q, k) = Returns(db, <<>>)
    /\ (call.op \in {"init", "rebuildIndex"} /\ ~ret.threw /\ DOMAIN db.vectors = {})
          => EmptyIndex
    /\ (call.op = "search" /\ EmptyIndex /\ Len(call.query) = db.dim) =>
          ~ret.threw /\ ret.val = <<>>

\* C15's case: every record added was deleted, the index was rebuilt with
\* zero records, and a search for one neighbour has returned
C15_Witness ==
    /\ call.op = "search"
    /\ call.k = 1
    /\ Len(call.query) = db.dim
    /\ EmptyIndex
    /\ DOMAIN db.vectors = {}
    /\ db.nextId > 1
    /\ ret.val = <<>>

\* the pairs (id, distance) of results are in non-decreasing distance and no
\* distance is negative
NearestFirst(results) ==
    /\ \A i \in 1 .. Len(results) - 1 : results[i][2] <= results[i + 1][2]
    /\ \A i \in 1 .. Len(results) : results[i][2] >= 0

\* C16. Result ordering: the list a search returns is sorted by
\* non-decreasing distance, nearest first, and no reported distance is
\* negative.
C16_SortedNearestFirst ==
    (call.op = "search" /\ ~ret.threw) => NearestFirst(ret.val)

\* C16's case: a search has returned two records at different distances
C16_Witness ==
    /\ call.op = "search"
    /\ ~ret.threw
    /\ Len(ret.val) = 2
    /\ ret.val[1][2] < ret.val[2][2]

\* C17 as claimed. Persistence round trip: save() followed by load() on a
\* new VectorDB of the same path yields the same dim, the same nextId and
\* the same records.  (A load step taken while the file is what save() writes
\* for the store is such a round trip.)
C17_RoundTrip ==
    [][(call'.op = "load" /\ file = save(db)) =>
          /\ ~ret'.threw
          /\ db'.dim = db.dim
          /\ db'.nextId = db.nextId
          /\ db'.vectors = db.vectors]_vars

\* a round trip of a store whose floats are all finite gives the store back
C17_RoundTripFinite ==
    [][(/\ call'.op = "load"
        /\ file = save(db)
        /\ \A id \in DOMAIN db.vectors :
              \A i \in 1 .. Len(db.vectors[id].vec) : db.vectors[id].vec[i] # Infinity) =>
          /\ ~ret'.threw
          /\ db'.dim = db.dim
          /\ db'.nextId = db.nextId
          /\ db'.vectors = db.vectors]_vars

\* C18 as claimed. Id allocation: across any sequence of add, update,
\* delete, save and load, every id addVector returns is strictly greater than
\* every id it returned earlier.
C18_IdsStrictlyIncrease ==
    \A i \in 1 .. Len(returned), j \in 1 .. Len(returned) :
        i < j => returned[i] < returned[j]

\* C18 as amended. A successful init sets nextId to 1; a successful addVector
\* returns nextId, which is greater than every id in the store, and adds one
\* to it; updateVector, deleteVector and save leave nextId alone; load sets
\* nextId to the value in the file.
C18_IdsIncreaseUntilLoad ==
    [][/\ (call'.op = "init" /\ ~ret'.threw) => db'.nextId = 1
       /\ (call'.op = "addVector" /\ ~ret'.threw) =>
             /\ ret'.val = db.nextId
             /\ db'.nextId = db.nextId + 1
             /\ \A id \in DOMAIN db.vectors : id < ret'.val
             /\ returned' = Append(returned, db.nextId)
       /\ call'.op \in {"updateVector", "deleteVector", "save"} =>
             db'.nextId = db.nextId /\ returned' = returned
       /\ (call'.op = "load" /\ file.exists) => db'.nextId = file.nextId]_vars

\* C18's case: record 1 was deleted and the next addVector has returned 2
C18_Witness ==
    /\ call.op = "addVector"
    /\ ~ret.threw
    /\ ret.val = 2
    /\ 1 \notin DOMAIN db.vectors
    /\ returned = <<1, 2>>

\* C19. Not-found handling: getVector, updateVector and deleteVector called
\* with an id that is not in the store report not-found (second == false,
\* return false), throw nothing, and leave the records, nextId and the index
\* unchanged.
C19_NotFoundLeavesStore ==
    [][(/\ call'.op \in {"getVector", "updateVector", "deleteVector"}
        /\ call'.id \notin DOMAIN db.vectors) =>
          /\ ~ret'.threw
          /\ IF call'.op = "getVector" THEN ret'.val.second = FALSE
                                       ELSE ret'.val = FALSE
          /\ db' = db
          /\ file' = file]_vars

\* C19's case: a store with a record and a built index was asked for an id
\* it does not hold, and has answered not-found
C19_Witness ==
    /\ call.op \in {"getVector", "updateVector", "deleteVector"}
    /\ call.id \notin DOMAIN db.vectors
    /\ DOMAIN db.vectors # {}
    /\ call.id < db.nextId
    /\ db.hnsw_index # NullIndex
    /\ db.hnsw_index.nodes_ # <<>>
    /\ ~ret.threw

----------------------------------------------------------------------------
(* Properties of the command line *)

\* C10 as claimed. CLI exit status: a run of main exits with status 0 exactly
\* when it reported no error on std::cerr, and with status 1 when it did (a
\* usage text, a caught exception, or "not found").
C10_ExitStatus ==
    call.op = "main" => (ret.exit = 0 <=> ret.err = NoErr)

\* the search command lines with both arguments
SearchLines == {argv \in CommandLines : Names(argv, "search") /\ Argc(argv) = 5}

\* what a search command can print and exit with on the file f, over the
\* layers its load() may draw
SearchOutcomes(f, argv) ==
    {[exit |-> r.exit, out |-> r.out] :
        r \in {main(argv, f, ls, <<>>) : ls \in LoadLayers(f)}}

\* the command line is an add, update or delete
Mutation(argv) ==
    Names(argv, "add") \/ Names(argv, "update") \/ Names(argv, "delete")

\* C11 as claimed. CLI staleness: after an add, update or delete command that
\* succeeded (and no rebuild command yet), every search command gives what it
\* would have given before the mutation.
C11_SearchStaleUntilRebuild ==
    [][(call'.op = "main" /\ Mutation(call'.argv)
            /\ ret'.exit = 0 /\ ret'.err = NoErr) =>
          \A argv \in SearchLines :
              SearchOutcomes(file', argv) = SearchOutcomes(file, argv)]_vars

----------------------------------------------------------------------------
(* Properties of the threads *)

\* C12. Writer exclusion: no two threads are inside the body of addPoint at
\* once, no thread is inside searchKnn while another is inside addPoint, and
\* a thread inside addPoint owns mutex_ at every line from 56 to its return.
C12_WriterExclusion ==
    \A t \in DOMAIN pc :
        InAddPoint(t) =>
            /\ mutex_ = t
            /\ \A u \in DOMAIN pc \ {t} : ~InAddPoint(u) /\ ~InSearchKnn(u)

\* C12's case: a thread is between the push and the linking of its node
\* while a second addPoint and a searchKnn have been called and wait
C12_Witness ==
    \E t \in DOMAIN pc, u \in DOMAIN pc, v \in DOMAIN pc :
        /\ pc[t].at = "addPoint:69"
        /\ pc[u].at = "addPoint:54"
        /\ pc[v].at = "searchKnn:102"

\* C13 as claimed. Reader parallelism: searchKnn acquires shared access, so a
\* searchKnn call waiting for the lock while another thread is inside
\* searchKnn can take it and be inside searchKnn as well.
C13_SearchersShare ==
    \A t \in DOMAIN pc, u \in DOMAIN pc :
        (pc[t].at = "searchKnn:102" /\ InSearchKnn(u)) => ENABLED TLock(t)

\* What holds instead of C13: no two threads are ever inside searchKnn at
\* once, so the state C13 describes is not reachable.
C13_SearchersExclude ==
    \A t \in DOMAIN pc :
        \A u \in DOMAIN pc \ {t} : ~(InSearchKnn(t) /\ InSearchKnn(u))

====
